---------------------------- MODULE Spec2Model ----------------------------
(***************************************************************************)
(* A model of the person-finder scripts:                                   *)
(*   - ComprehensivePersonFinder (finder/comprehensive_person_finder.py):  *)
(*     query generation, the thread-pool fan-out/fan-in of                 *)
(*     comprehensive_search, the collectors and the correlation step;      *)
(*   - EnhancedPersonFinder (finder/enhanced_person_finder.py):            *)
(*     _calculate_name_confidence, _deduplicate_results and the final sort;*)
(*   - RealSocialScraper (finder/real_social_scraper.py):                  *)
(*     _generate_search_queries and the duplicate removal of               *)
(*     search_instagram.                                                   *)
(*                                                                         *)
(* A Python str is a sequence of one-character strings, so that quoting,   *)
(* lower-casing, the regular-expression clean-up and split() are computed  *)
(* as the code computes them.  A float confidence is an exact rational     *)
(* [n |-> numerator, d |-> denominator].                                   *)
(***************************************************************************)
EXTENDS Integers, Sequences, FiniteSets, TLC

VARIABLES
    hashSeed,        \* the interpreter's string-hash seed (fixed per process)
    qlog,            \* the calls of _build_search_queries made so far
    prog,            \* which sequential program the process is running
    recs,            \* EnhancedPersonFinder: results.profiles, in arrival order
    shuffled,        \* the same records in another arrival order
    dedupA, dedupB,  \* _deduplicate_results of recs and of shuffled
    eprofiles,       \* EnhancedPersonFinder: results.profiles as returned
    sraw,            \* RealSocialScraper.search_instagram: profiles
    sout,            \* RealSocialScraper.search_instagram: unique_profiles
    pc,              \* comprehensive_search: position of the calling thread
    name,            \* comprehensive_search: the name argument
    queries,         \* comprehensive_search: search_queries
    task,            \* state of each submitted future
    result,          \* the list of each collector: its future's return value
    cur,             \* index of the future the result loop is at
    waited,          \* per future: how the result loop left it
    partial,         \* per future: the collector's list when its wait timed out
    profiles,        \* person_data.profiles
    web_mentions,    \* person_data.web_mentions
    locations,       \* person_data.locations
    confidence_score,\* person_data.confidence_score
    collecting,      \* the collector a call of which is followed query by query
    cpc,             \* that call: position of its thread
    cqueries,        \* that call: the queries it was given
    requested,       \* that call: the queries a request was sent for, in order
    responses,       \* that call: what each request met
    errlog,          \* that call: the queries logger.error was called for
    clist            \* that call: the list it builds and returns

qvars == <<hashSeed, qlog>>
mvars == <<prog, recs, shuffled, dedupA, dedupB, eprofiles, sraw, sout>>
svars == <<pc, name, queries, task, result, cur, waited, partial, profiles,
           web_mentions, locations, confidence_score>>
cvars == <<collecting, cpc, cqueries, requested, responses, errlog, clist>>
vars == <<hashSeed, qlog, prog, recs, shuffled, dedupA, dedupB, eprofiles,
          sraw, sout, pc, name, queries, task, result, cur, waited, partial,
          profiles, web_mentions, locations, confidence_score, collecting,
          cpc, cqueries, requested, responses, errlog, clist>>

-----------------------------------------------------------------------------
(* Bounds of the model *)

MaxCalls == 2        \* calls of _build_search_queries recorded in qlog
MaxRecs == 3         \* candidate records one EnhancedPersonFinder search gathers
MaxUsers == 1        \* entries in one response of an external source
MaxHits == 2         \* records the external sources return in one search
MaxFaults == 1       \* collectors that raise or outlast the result wait

-----------------------------------------------------------------------------
(* Sequences *)

Range(s) == {s[i] : i \in 1..Len(s)}

Min(a, b) == IF a <= b THEN a ELSE b

\* s[:k]
Prefix(s, k) == SubSeq(s, 1, Min(k, Len(s)))

Reverse(s) == [i \in 1..Len(s) |-> s[Len(s) + 1 - i]]

\* the elements of s, each at its first occurrence
RECURSIVE Distinct(_)
Distinct(s) ==
    IF s = <<>> THEN <<>>
    ELSE LET front == Distinct(SubSeq(s, 1, Len(s) - 1))
             last == s[Len(s)]
         IN IF last \in Range(front) THEN front ELSE Append(front, last)

RECURSIVE Flatten(_)
Flatten(ss) == IF ss = <<>> THEN <<>> ELSE Head(ss) \o Flatten(Tail(ss))

-----------------------------------------------------------------------------
(* Python str operations *)

UpperCase == <<"A","B","C","D","E","F","G","H","I","J","K","L","M",
               "N","O","P","Q","R","S","T","U","V","W","X","Y","Z">>
LowerCase == <<"a","b","c","d","e","f","g","h","i","j","k","l","m",
               "n","o","p","q","r","s","t","u","v","w","x","y","z">>
Digits == {"0","1","2","3","4","5","6","7","8","9"}

\* str.lower() on one character
LowerChar(c) ==
    IF \E i \in 1..26 : UpperCase[i] = c
    THEN LowerCase[CHOOSE i \in 1..26 : UpperCase[i] = c]
    ELSE c

\* str.lower()
Lower(s) == [i \in 1..Len(s) |-> LowerChar(s[i])]

IsSpace(c) == c = " "

\* [a-zA-Z0-9\s]
IsWordOrSpace(c) ==
    c \in Range(UpperCase) \cup Range(LowerCase) \cup Digits \/ IsSpace(c)

\* re.sub(r'[^a-zA-Z0-9\s]', '', s)
StripNonAlnum(s) == SelectSeq(s, IsWordOrSpace)

\* s.replace(' ', c)
ReplaceSpace(s, c) == [i \in 1..Len(s) |-> IF s[i] = " " THEN c ELSE s[i]]

\* s.replace(' ', '')
RemoveSpaces(s) == SelectSeq(s, LAMBDA c : c # " ")

\* str.split(): the maximal runs of non-whitespace characters
RECURSIVE SplitFrom(_, _, _)
SplitFrom(s, i, word) ==
    IF i > Len(s) THEN (IF word = <<>> THEN <<>> ELSE <<word>>)
    ELSE IF IsSpace(s[i])
         THEN (IF word = <<>> THEN <<>> ELSE <<word>>) \o SplitFrom(s, i + 1, <<>>)
         ELSE SplitFrom(s, i + 1, Append(word, s[i]))

Split(s) == SplitFrom(s, 1, <<>>)

\* a quoting that folds the case of the name
QuotedLower(s) == <<"\"">> \o Lower(s) \o <<"\"">>

\* f'"{s}"'
Quoted(s) == <<"\"">> \o s \o <<"\"">>

-----------------------------------------------------------------------------
(* list(set(xs)): the distinct elements, in the iteration order of a set of
   str, which depends on the interpreter's hash seed and not on the order of
   insertion.  Two seeds are explored: one gives the insertion order, the
   other its reversal. *)

HashSeeds == {"seed_a", "seed_b"}

\* a list(set(...)) that returns every element twice
ListOfSetTwice(seed, xs) == Distinct(xs) \o Reverse(Distinct(xs))

ListOfSet(seed, xs) ==
    IF seed = "seed_a" THEN Distinct(xs) ELSE Reverse(Distinct(xs))

-----------------------------------------------------------------------------
(* ComprehensivePersonFinder._build_search_queries *)

LitLinkedIn == <<" ","L","i","n","k","e","d","I","n">>
LitProfile == <<" ","p","r","o","f","i","l","e">>
LitProfessional == <<" ","p","r","o","f","e","s","s","i","o","n","a","l">>
LitRoles == <<" ","C","E","O"," ","O","R"," ","d","i","r","e","c","t","o","r",
              " ","O","R"," ","m","a","n","a","g","e","r"," ","O","R"," ",
              "f","o","u","n","d","e","r">>
LitCompany == <<" ","c","o","m","p","a","n","y"," ","O","R"," ","o","r","g",
                "a","n","i","z","a","t","i","o","n"," ","O","R"," ","b","u",
                "s","i","n","e","s","s">>
LitInstagram == <<" ","I","n","s","t","a","g","r","a","m">>
LitTwitter == <<" ","T","w","i","t","t","e","r">>
LitFacebook == <<" ","F","a","c","e","b","o","o","k">>
LitSocialMedia == <<" ","s","o","c","i","a","l"," ","m","e","d","i","a">>

\* the queries in the order the code appends them; an absent (None) or empty
\* location / additional_info is <<>>: both are falsy
QueryList(nm, loc, info) ==
    <<Quoted(nm), nm, ReplaceSpace(nm, "+")>>
    \o (IF loc # <<>>
        THEN <<Quoted(nm) \o <<" ">> \o loc,
               Quoted(nm) \o <<" ">> \o Quoted(loc),
               nm \o <<" ">> \o loc>>
        ELSE <<>>)
    \o <<Quoted(nm) \o LitLinkedIn,
         Quoted(nm) \o LitProfile,
         Quoted(nm) \o LitProfessional,
         Quoted(nm) \o LitRoles,
         Quoted(nm) \o LitCompany>>
    \o <<Quoted(nm) \o LitInstagram,
         Quoted(nm) \o LitTwitter,
         Quoted(nm) \o LitFacebook,
         Quoted(nm) \o LitSocialMedia>>
    \o (IF info # <<>>
        THEN <<Quoted(nm) \o <<" ">> \o Quoted(info),
               nm \o <<" ">> \o info>>
        ELSE <<>>)

BuildSearchQueries(seed, nm, loc, info) == ListOfSet(seed, QueryList(nm, loc, info))

-----------------------------------------------------------------------------
(* RealSocialScraper._generate_search_queries *)

GenerateSearchQueries(seed, nm) ==
    LET clean == StripNonAlnum(nm)
        parts == Split(clean)
        basic == <<clean, RemoveSpaces(clean), ReplaceSpace(clean, "_")>>
        combos == IF Len(parts) >= 2
                  THEN LET first == parts[1]
                           last == parts[Len(parts)]
                       IN <<first \o <<" ">> \o last,
                            first \o last,
                            first \o <<"_">> \o last>>
                  ELSE <<>>
    IN ListOfSet(seed, basic \o combos)

-----------------------------------------------------------------------------
(* Confidence values: exact rationals *)

Rat(n, d) == [n |-> n, d |-> d]
Zero == Rat(0, 1)
One == Rat(1, 1)
RatLess(a, b) == a.n * b.d < b.n * a.d
RatLeq(a, b) == a.n * b.d <= b.n * a.d
RatEq(a, b) == a.n * b.d = b.n * a.d
RatAdd(a, b) == Rat(a.n * b.d + b.n * a.d, a.d * b.d)
InUnitInterval(a) == a.d > 0 /\ RatLeq(Zero, a) /\ RatLeq(a, One)

\* EnhancedPersonFinder._calculate_name_confidence
CalculateNameConfidence(search_name, found_name) ==
    IF search_name = <<>> \/ found_name = <<>> THEN Zero
    ELSE LET search_words == Range(Split(Lower(search_name)))
             found_words == Range(Split(Lower(found_name)))
         IN IF search_words = {} \/ found_words = {} THEN Zero
            ELSE Rat(Cardinality(search_words \cap found_words),
                     Cardinality(search_words \cup found_words))

\* ComprehensivePersonFinder._calculate_name_similarity
CalculateNameSimilarity(query, nm) ==
    IF query = <<>> \/ nm = <<>> THEN Zero
    ELSE LET query_words == Range(Split(StripNonAlnum(Lower(query))))
             name_words == Range(Split(StripNonAlnum(Lower(nm))))
         IN IF query_words = {} \/ name_words = {} THEN Zero
            ELSE Rat(Cardinality(query_words \cap name_words),
                     Cardinality(query_words \cup name_words))

\* list.sort(key=lambda x: x.confidence, reverse=True): stable, so records of
\* equal confidence keep their order
RECURSIVE SortByConfidence(_)
SortByConfidence(s) ==
    IF s = <<>> THEN <<>>
    ELSE LET front == SortByConfidence(SubSeq(s, 1, Len(s) - 1))
             x == s[Len(s)]
             k == Cardinality({i \in 1..Len(front) :
                                 RatLeq(x.confidence, front[i].confidence)})
         IN SubSeq(front, 1, k) \o <<x>> \o SubSeq(front, k + 1, Len(front))

-----------------------------------------------------------------------------
(* EnhancedPersonFinder._deduplicate_results *)

IdentityKey(r) == <<r.platform, r.username>>

\* a deduplication that keeps the last record of each key
RECURSIVE DeduplicateResultsKeepLast(_)
DeduplicateResultsKeepLast(results) ==
    IF results = <<>> THEN <<>>
    ELSE LET r == Head(results)
             rest == DeduplicateResultsKeepLast(Tail(results))
         IN IF IdentityKey(r) \in {IdentityKey(u) : u \in Range(Tail(results))}
            THEN rest
            ELSE <<r>> \o rest

RECURSIVE DeduplicateResults(_)
DeduplicateResults(results) ==
    IF results = <<>> THEN <<>>
    ELSE LET unique == DeduplicateResults(SubSeq(results, 1, Len(results) - 1))
             r == results[Len(results)]
         IN IF IdentityKey(r) \in {IdentityKey(u) : u \in Range(unique)}
            THEN unique
            ELSE Append(unique, r)

(* RealSocialScraper.search_instagram, "Remove duplicates" *)

RECURSIVE UniqueByUsername(_)
UniqueByUsername(ps) ==
    IF ps = <<>> THEN <<>>
    ELSE LET unique == UniqueByUsername(SubSeq(ps, 1, Len(ps) - 1))
             p == ps[Len(ps)]
         IN IF p.username \in {u.username : u \in Range(unique)}
            THEN unique
            ELSE Append(unique, p)

-----------------------------------------------------------------------------
(* Inputs: names, locations, additional info *)

StrJoLi == <<"J","o"," ","L","i">>
StrJo == <<"J","o">>
StrNY == <<"N","Y">>
StrCEO == <<"C","E","O">>

Names == {<<>>, StrJo, StrJoLi}
Locations == {<<>>, StrNY}
Infos == {<<>>, StrCEO}

\* every sequence over S of length at most n
SeqsUpTo(S, n) == UNION {[1..k -> S] : k \in 0..n}

-----------------------------------------------------------------------------
(* The query generators, called in a process and again after a restart of
   the interpreter *)

CallBuildSearchQueries ==
    /\ Len(qlog) < MaxCalls
    /\ \E nm \in Names, loc \in Locations, info \in Infos :
         qlog' = Append(qlog, [fn |-> "_build_search_queries", nm |-> nm,
                               loc |-> loc, info |-> info,
                               out |-> BuildSearchQueries(hashSeed, nm, loc, info)])
    /\ UNCHANGED <<cvars, hashSeed, mvars, svars>>

CallGenerateSearchQueries ==
    /\ Len(qlog) < MaxCalls
    /\ \E nm \in Names :
         qlog' = Append(qlog, [fn |-> "_generate_search_queries", nm |-> nm,
                               loc |-> <<>>, info |-> <<>>,
                               out |-> GenerateSearchQueries(hashSeed, nm)])
    /\ UNCHANGED <<cvars, hashSeed, mvars, svars>>

\* the script is run again: a new interpreter draws a new hash seed
\* (hash randomization is on by default)
Restart ==
    /\ hashSeed' \in HashSeeds
    /\ UNCHANGED <<cvars, qlog, mvars, svars>>

-----------------------------------------------------------------------------
(* EnhancedPersonFinder.comprehensive_search: five search methods run one
   after the other, each extending results.profiles; then the duplicates are
   removed and the profiles sorted by confidence *)

StrUserJoli == <<"j","o","l","i">>
StrArt == <<"a","r","t">>

Platforms == {"instagram", "linkedin"}

\* a PersonResult as _extract_profile_from_url (bio empty) and
\* _direct_profile_search (bio from the page, confidence recomputed) build it
PersonResult(platform, username, nm, bio, source) ==
    [platform |-> platform, username |-> username, name |-> nm, bio |-> bio,
     location |-> <<>>,
     confidence |-> CalculateNameConfidence(StrJoLi, nm),
     source |-> source]

FoundNames == {StrJoLi, StrJo}

HitsOf(method) ==
    {PersonResult(pl, StrUserJoli, nm,
                  IF method = "Direct access" THEN StrArt ELSE <<>>, method) :
        pl \in Platforms, nm \in FoundNames}

\* _direct_profile_search fetches each (platform, username) once: the
\* usernames of _generate_usernames are list(set(...))
OnePerKey(hits) ==
    \A i, j \in 1..Len(hits) : IdentityKey(hits[i]) = IdentityKey(hits[j]) => i = j

MethodRank(source) ==
    CASE source = "Google search" -> 1
      [] source = "DuckDuckGo" -> 2
      [] source = "Direct access" -> 3

\* an order in which the three methods can have appended the records
IsArrivalOrder(rs) ==
    \A i, j \in 1..Len(rs) :
        i < j => MethodRank(rs[i].source) <= MethodRank(rs[j].source)

Perms(n) == {f \in [1..n -> 1..n] : \A i, j \in 1..n : f[i] = f[j] => i = j}

EnhancedExtend(at, method, next) ==
    /\ prog = at
    /\ \E hits \in SeqsUpTo(HitsOf(method), MaxRecs - Len(recs)) :
         /\ method = "Direct access" => OnePerKey(hits)
         /\ recs' = recs \o hits
    /\ prog' = next
    /\ UNCHANGED <<shuffled, dedupA, dedupB, eprofiles, sraw, sout>>
    /\ UNCHANGED <<cvars, qvars, svars>>

GoogleSearchSocial == EnhancedExtend("idle", "Google search", "duckduckgo")

DuckDuckGoSearch == EnhancedExtend("duckduckgo", "DuckDuckGo", "direct")

DirectProfileSearch == EnhancedExtend("direct", "Direct access", "finish")

\* _search_social_mentions and _search_professional return []; then
\* _deduplicate_results and the sort.  shuffled is the same search with the
\* same records found in another order, dedupB what it keeps.
EnhancedFinish ==
    /\ prog = "finish"
    /\ dedupA' = DeduplicateResults(recs)
    /\ eprofiles' = SortByConfidence(DeduplicateResults(recs))
    /\ \E f \in Perms(Len(recs)) :
         LET other == [i \in 1..Len(recs) |-> recs[f[i]]]
         IN /\ IsArrivalOrder(other)
            /\ shuffled' = other
            /\ dedupB' = DeduplicateResults(other)
    /\ prog' = "enhanced_done"
    /\ UNCHANGED <<recs, sraw, sout>>
    /\ UNCHANGED <<cvars, qvars, svars>>

-----------------------------------------------------------------------------
(* RealSocialScraper.search_instagram *)

ScraperUser(username, followers) ==
    [username |-> username, full_name |-> StrJoLi, biography |-> <<>>,
     follower_count |-> followers]

ScraperUsers == {ScraperUser(StrUserJoli, 100), ScraperUser(StrUserJoli, 120),
                 ScraperUser(<<>>, 7), ScraperUser(<<>>, 9)}

ScraperResponses ==
    {[kind |-> "exception"], [kind |-> "status"]}
    \cup {[kind |-> "ok", users |-> us] : us \in SeqsUpTo(ScraperUsers, MaxUsers)}

SocialProfile(user) ==
    [platform |-> "Instagram", username |-> user.username,
     display_name |-> user.full_name, bio |-> user.biography,
     followers |-> user.follower_count, confidence |-> Rat(8, 10)]

\* the profiles one query adds: users[:5] of a 200 response
ScraperProfilesOf(resp) ==
    IF resp.kind = "ok"
    THEN LET us == Prefix(resp.users, 5)
         IN [i \in 1..Len(us) |-> SocialProfile(us[i])]
    ELSE <<>>

ScraperSearchInstagram ==
    /\ prog = "idle"
    /\ \E nm \in Names :
         LET qs == Prefix(GenerateSearchQueries(hashSeed, nm), 3)
         IN \E resp \in [1..Len(qs) -> ScraperResponses] :
              LET found == Flatten([i \in 1..Len(qs) |-> ScraperProfilesOf(resp[i])])
              IN /\ sraw' = found
                 /\ sout' = UniqueByUsername(found)
    /\ prog' = "scraper_done"
    /\ UNCHANGED <<recs, shuffled, dedupA, dedupB, eprofiles>>
    /\ UNCHANGED <<cvars, qvars, svars>>

-----------------------------------------------------------------------------
(* ComprehensivePersonFinder: the collectors.  Each takes the queries and the
   responses of its external source, one per query it sends. *)

StrHttpA == <<"h","t","t","p",":","/","/","a">>
StrRelUrl == <<"/","u","r","l">>

\* the entries of Instagram's topsearch 'users' list
InstaUser(username, full_name, followers) ==
    [username |-> username, full_name |-> full_name, biography |-> <<>>,
     follower_count |-> followers, following_count |-> 0, media_count |-> 0]

InstaUsers == {InstaUser(StrUserJoli, StrJoLi, 100), InstaUser(<<>>, StrJo, 0)}

InstaResponses ==
    {[kind |-> "exception"], [kind |-> "status"], [kind |-> "badjson"]}
    \cup {[kind |-> "ok", users |-> us] : us \in SeqsUpTo(InstaUsers, MaxUsers)}

PersonProfile(platform, username, full_name, bio, location, followers, following, posts, confidence) ==
    [platform |-> platform, username |-> username, full_name |-> full_name,
     bio |-> bio, location |-> location, followers |-> followers,
     following |-> following, posts |-> posts, confidence |-> confidence]

\* what one query of _search_instagram appends: users[:10] with a username
InstagramProfilesOf(query, resp) ==
    IF resp.kind = "ok"
    THEN LET us == SelectSeq(Prefix(resp.users, 10), LAMBDA u : u.username # <<>>)
         IN [i \in 1..Len(us) |->
               PersonProfile("instagram", us[i].username, us[i].full_name,
                             us[i].biography, <<>>, us[i].follower_count,
                             us[i].following_count, us[i].media_count,
                             CalculateNameSimilarity(query, us[i].full_name))]
    ELSE <<>>

InstagramQueryLimit == 3

\* the lists the loop of _search_instagram can build from query k of sent on,
\* the source returning at most budget records
RECURSIVE InstagramLoop(_, _, _)
InstagramLoop(sent, k, budget) ==
    IF k > Len(sent) THEN {<<>>}
    ELSE UNION {{found \o rest : rest \in InstagramLoop(sent, k + 1, budget - Len(found))} :
                  found \in {f \in {InstagramProfilesOf(sent[k], r) : r \in InstaResponses} :
                               Len(f) <= budget}}

\* the values _search_instagram can return
SearchInstagram(qs, budget) == InstagramLoop(Prefix(qs, InstagramQueryLimit), 1, budget)

\* a profile link of a LinkedIn result page and what fetching it gives:
\* page.kind = "fail" is _get_linkedin_profile_info returning None
LinkedInLinks ==
    {[username |-> StrUserJoli, page |-> [kind |-> "fail"]],
     [username |-> StrUserJoli,
      page |-> [kind |-> "ok", name |-> <<>>, headline |-> StrArt, location |-> StrNY]]}

LinkedInResponses ==
    {[kind |-> "exception"], [kind |-> "status"]}
    \cup {[kind |-> "ok", links |-> ls] : ls \in SeqsUpTo(LinkedInLinks, MaxUsers)}

LinkedInConfidence == Rat(8, 10)

\* _get_linkedin_profile_info for a page that was fetched; the name is the
\* username when the page has no heading
GetLinkedInProfileInfo(link) ==
    PersonProfile("linkedin", link.username,
                  IF link.page.name = <<>> THEN link.username ELSE link.page.name,
                  link.page.headline, link.page.location, 0, 0, 0,
                  LinkedInConfidence)

LinkedInProfilesOf(resp) ==
    IF resp.kind = "ok"
    THEN LET ls == SelectSeq(Prefix(resp.links, 5), LAMBDA l : l.page.kind = "ok")
         IN [i \in 1..Len(ls) |-> GetLinkedInProfileInfo(ls[i])]
    ELSE <<>>

LinkedInQueryLimit == 3

RECURSIVE LinkedInLoop(_, _, _)
LinkedInLoop(sent, k, budget) ==
    IF k > Len(sent) THEN {<<>>}
    ELSE UNION {{found \o rest : rest \in LinkedInLoop(sent, k + 1, budget - Len(found))} :
                  found \in {f \in {LinkedInProfilesOf(r) : r \in LinkedInResponses} :
                               Len(f) <= budget}}

\* the values _search_linkedin can return
SearchLinkedIn(qs, budget) == LinkedInLoop(Prefix(qs, LinkedInQueryLimit), 1, budget)

TwitterQueryLimit == 2

\* _search_twitter sends queries[:2] and extracts nothing from the pages
SearchTwitter(qs) == {<<>>}

\* _search_facebook sends nothing
SearchFacebook(qs) == {<<>>}

\* whether sub occurs in s (Python's  sub in s)
IsSubstring(sub, s) ==
    \E i \in 0..(Len(s) - Len(sub)) : SubSeq(s, i + 1, i + Len(sub)) = sub

\* _calculate_relevance_score
CalculateRelevanceScore(query, title, snippet) ==
    LET text == Lower(title \o <<" ">> \o snippet)
        query_words == Split(Lower(query))
        score == Cardinality({i \in 1..Len(query_words) : IsSubstring(query_words[i], text)})
    IN IF query_words # <<>> THEN Rat(score, Len(query_words)) ELSE Zero

\* the result entries of a Google page that have a link and a title
WebResults ==
    {[url |-> StrHttpA, title |-> StrJoLi, snippet |-> <<>>],
     [url |-> StrRelUrl, title |-> StrJo, snippet |-> <<>>]}

WebResponses ==
    {[kind |-> "exception"], [kind |-> "status"]}
    \cup {[kind |-> "ok", results |-> rs] : rs \in SeqsUpTo(WebResults, MaxUsers)}

StartsWithHttp(url) == Prefix(url, 4) = <<"h","t","t","p">>

WebMentionsOf(query, resp) ==
    IF resp.kind = "ok"
    THEN LET rs == SelectSeq(Prefix(resp.results, 10), LAMBDA r : StartsWithHttp(r.url))
         IN [i \in 1..Len(rs) |->
               [url |-> rs[i].url, title |-> rs[i].title, snippet |-> rs[i].snippet,
                source |-> "google",
                relevance_score |-> CalculateRelevanceScore(query, rs[i].title, rs[i].snippet)]]
    ELSE <<>>

WebQueryLimit == 5

RECURSIVE WebLoop(_, _, _)
WebLoop(sent, k, budget) ==
    IF k > Len(sent) THEN {<<>>}
    ELSE UNION {{found \o rest : rest \in WebLoop(sent, k + 1, budget - Len(found))} :
                  found \in {f \in {WebMentionsOf(sent[k], r) : r \in WebResponses} :
                               Len(f) <= budget}}

\* the values _search_web_mentions can return
SearchWebMentions(qs, budget) == WebLoop(Prefix(qs, WebQueryLimit), 1, budget)

\* _search_professional_directories returns {} and _search_news_articles []
SearchProfessionalDirectories(qs) == {<<>>}
SearchNewsArticles(qs) == {<<>>}

-----------------------------------------------------------------------------
(* One call of a collector, request by request *)

LitSiteInstagram == <<" ","s","i","t","e",":","i","n","s","t","a","g","r","a","m",".","c","o","m">>
LitSiteLinkedIn == <<" ","s","i","t","e",":","l","i","n","k","e","d","i","n",".","c","o","m">>
LitSiteTwitter == <<" ","s","i","t","e",":","t","w","i","t","t","e","r",".","c","o","m">>
LitSiteFacebook == <<" ","s","i","t","e",":","f","a","c","e","b","o","o","k",".","c","o","m">>
LitInstagramProfile == <<" ","I","n","s","t","a","g","r","a","m"," ","p","r","o","f","i","l","e">>
LitLinkedInProfile == <<" ","L","i","n","k","e","d","I","n"," ","p","r","o","f","i","l","e">>

\* EnhancedPersonFinder._google_search_social: the queries it builds
GoogleSocialQueries(nm, location) ==
    <<Quoted(nm) \o LitSiteInstagram,
      Quoted(nm) \o LitSiteLinkedIn,
      Quoted(nm) \o LitSiteTwitter,
      Quoted(nm) \o LitSiteFacebook,
      Quoted(nm) \o LitInstagramProfile,
      Quoted(nm) \o LitLinkedInProfile>>
    \o (IF location # <<>>
        THEN <<Quoted(nm) \o <<" ">> \o Quoted(location) \o LitSiteLinkedIn,
               Quoted(nm) \o <<" ">> \o Quoted(location) \o LitInstagram>>
        ELSE <<>>)

GoogleQueryLimit == 6

\* what a request of _search_twitter can meet
TwitterResponses == {[kind |-> "exception"], [kind |-> "status"], [kind |-> "ok"]}

\* what a request of _google_search_social can meet
GoogleResponses ==
    {[kind |-> "exception"], [kind |-> "status"]}
    \cup {[kind |-> "ok", hits |-> hs] : hs \in SeqsUpTo(HitsOf("Google search"), MaxUsers)}

\* profile.source = f"Google search: {query}"
GoogleProfilesOf(query, resp) ==
    IF resp.kind = "ok"
    THEN [i \in 1..Len(resp.hits) |->
            [resp.hits[i] EXCEPT !.source = <<"Google search: ">> \o query]]
    ELSE <<>>

Collectors == {"instagram", "linkedin", "twitter", "facebook", "mentions", "google_social"}

\* the slice bound of the collector's loop; _search_facebook has no loop
QueryLimit(c) ==
    CASE c = "instagram" -> InstagramQueryLimit
      [] c = "linkedin" -> LinkedInQueryLimit
      [] c = "twitter" -> TwitterQueryLimit
      [] c = "facebook" -> 0
      [] c = "mentions" -> WebQueryLimit
      [] c = "google_social" -> GoogleQueryLimit

\* a loop over the whole list
QueryPrefixWhole(c, qs) == qs

\* for query in queries[:n]
QueryPrefix(c, qs) == Prefix(qs, QueryLimit(c))

ResponsesOf(c) ==
    CASE c = "instagram" -> InstaResponses
      [] c = "linkedin" -> LinkedInResponses
      [] c = "twitter" -> TwitterResponses
      [] c = "facebook" -> {}
      [] c = "mentions" -> WebResponses
      [] c = "google_social" -> GoogleResponses

\* what the loop body appends for one query and what its request met
RecordsOf(c, query, resp) ==
    CASE c = "instagram" -> InstagramProfilesOf(query, resp)
      [] c = "linkedin" -> LinkedInProfilesOf(resp)
      [] c = "twitter" -> <<>>
      [] c = "facebook" -> <<>>
      [] c = "mentions" -> WebMentionsOf(query, resp)
      [] c = "google_social" -> GoogleProfilesOf(query, resp)

\* lengths of the query lists the collectors are called with
GivenLengths == {0, 2, 4, 17}

\* the queries argument: what _build_search_queries gives, or a shorter list;
\* _google_search_social builds its own
QueriesGiven(c, seed) ==
    IF c = "google_social"
    THEN {GoogleSocialQueries(StrJoLi, loc) : loc \in Locations}
    ELSE {Prefix(BuildSearchQueries(seed, StrJoLi, StrNY, StrCEO), n) : n \in GivenLengths}

\* the collector is called: profiles = [] (mentions = [], results = [])
CollectorCall ==
    /\ cpc = "idle"
    /\ \E c \in Collectors :
         /\ collecting' = c
         /\ cqueries' \in QueriesGiven(c, hashSeed)
    /\ cpc' = "loop"
    /\ UNCHANGED <<requested, responses, errlog, clist>>
    /\ UNCHANGED <<qvars, mvars, svars>>

\* one turn of the loop: the request for the next query of the slice is
\* sent; an exception is caught and logged, any other response that is not
\* a readable 200 is passed over, and the loop goes on
CollectorQuery ==
    /\ cpc = "loop"
    /\ Len(requested) < Len(QueryPrefix(collecting, cqueries))
    /\ LET query == QueryPrefix(collecting, cqueries)[Len(requested) + 1]
       IN \E resp \in ResponsesOf(collecting) :
            /\ Len(clist) + Len(RecordsOf(collecting, query, resp)) <= MaxHits
            /\ requested' = Append(requested, query)
            /\ responses' = Append(responses, resp)
            /\ errlog' = IF resp.kind = "exception" THEN Append(errlog, query) ELSE errlog
            /\ clist' = clist \o RecordsOf(collecting, query, resp)
    /\ UNCHANGED <<collecting, cpc, cqueries>>
    /\ UNCHANGED <<qvars, mvars, svars>>

\* the slice is exhausted: return profiles
CollectorReturn ==
    /\ cpc = "loop"
    /\ Len(requested) = Len(QueryPrefix(collecting, cqueries))
    /\ cpc' = "done"
    /\ UNCHANGED <<collecting, cqueries, requested, responses, errlog, clist>>
    /\ UNCHANGED <<qvars, mvars, svars>>

-----------------------------------------------------------------------------
(* ComprehensivePersonFinder.comprehensive_search *)

\* futures, in the order comprehensive_search submits them
Futures ==
    <<[type |-> "platform", source |-> "instagram"],
      [type |-> "platform", source |-> "linkedin"],
      [type |-> "platform", source |-> "twitter"],
      [type |-> "platform", source |-> "facebook"],
      [type |-> "web", source |-> "mentions"],
      [type |-> "professional", source |-> "directories"],
      [type |-> "news", source |-> "articles"]>>

NumFutures == Len(Futures)
FutureIds == 1..NumFutures

\* the values the task of future i can return when the sources return at
\* most budget records: _search_platform dispatches on the platform
TaskResults(i, qs, budget) ==
    CASE Futures[i].source = "instagram" -> SearchInstagram(qs, budget)
      [] Futures[i].source = "linkedin" -> SearchLinkedIn(qs, budget)
      [] Futures[i].source = "twitter" -> SearchTwitter(qs)
      [] Futures[i].source = "facebook" -> SearchFacebook(qs)
      [] Futures[i].source = "mentions" -> SearchWebMentions(qs, budget)
      [] Futures[i].source = "directories" -> SearchProfessionalDirectories(qs)
      [] Futures[i].source = "articles" -> SearchNewsArticles(qs)

\* TaskResults for every query list a search can build, tabulated
QueryLists ==
    {BuildSearchQueries(seed, nm, loc, info) :
       seed \in HashSeeds, nm \in Names, loc \in Locations, info \in Infos}

ResultTable ==
    [qs \in QueryLists |->
       [i \in FutureIds |-> [budget \in 0..MaxHits |-> TaskResults(i, qs, budget)]]]

RECURSIVE SumLen(_, _)
SumLen(f, n) == IF n = 0 THEN 0 ELSE Len(f[n]) + SumLen(f, n - 1)

\* records the external sources have returned so far in this search
HitsSoFar == SumLen(result, NumFutures)

\* collectors that raised or outlasted their result wait
Faulty == {i \in FutureIds : task[i] = "raised" \/ waited[i] = "timeout"}

SearchInputs == {<<nm, <<>>, <<>>>> : nm \in {<<>>, StrJoLi}}

\* person_data = PersonData(name=name); search_queries = _build_search_queries(...)
StartSearch ==
    /\ pc = "idle"
    /\ \E in \in SearchInputs :
         /\ name' = in[1]
         /\ queries' = BuildSearchQueries(hashSeed, in[1], in[2], in[3])
    /\ pc' = "submit"
    /\ cur' = 1
    /\ UNCHANGED <<task, result, waited, profiles, web_mentions, locations,
                   confidence_score>>
    /\ UNCHANGED <<cvars, qvars, mvars, partial>>

\* ThreadPoolExecutor(max_workers=10)
MaxWorkers == 10

\* the tasks a worker thread is running
InFlight == {i \in FutureIds : task[i] \in {"running", "gathered"}}

\* a submit that starts no worker: the task stays in the queue
WorkerTakesNone(n) == "queued"

\* what becomes of a task submitted while n tasks are in flight: the executor
\* starts a worker thread for it unless max_workers threads are busy, and
\* then it waits in the queue
WorkerTakes(n) == IF n < MaxWorkers THEN "running" ELSE "queued"

\* executor.submit(...): max_workers=10 exceeds the seven tasks, so a worker
\* thread takes each task as it is submitted
Submit ==
    /\ pc = "submit"
    /\ task' = [task EXCEPT ![cur] = WorkerTakes(Cardinality(InFlight))]
    /\ IF cur < NumFutures
       THEN cur' = cur + 1 /\ pc' = "submit"
       ELSE cur' = 1 /\ pc' = "results"
    /\ UNCHANGED <<name, queries, result, waited, profiles, web_mentions,
                   locations, confidence_score>>
    /\ UNCHANGED <<cvars, qvars, mvars, partial>>

\* the task of future i returns
TaskReturn(i) ==
    /\ task[i] = "running"
    /\ \E r \in ResultTable[queries][i][MaxHits - HitsSoFar] :
         result' = [result EXCEPT ![i] = r]
    /\ task' = [task EXCEPT ![i] = "returned"]
    /\ UNCHANGED <<pc, name, queries, cur, waited, profiles, web_mentions,
                   locations, confidence_score>>
    /\ UNCHANGED <<cvars, qvars, mvars, partial>>

\* the collector of future i has appended the records of its queries to its
\* list and has not returned yet (it sleeps between queries, and sends the
\* queries that add nothing)
TaskGather(i) ==
    /\ task[i] = "running"
    /\ \E r \in ResultTable[queries][i][MaxHits - HitsSoFar] :
         /\ r # <<>>
         /\ result' = [result EXCEPT ![i] = r]
    /\ task' = [task EXCEPT ![i] = "gathered"]
    /\ UNCHANGED <<pc, name, queries, cur, waited, profiles, web_mentions,
                   locations, confidence_score>>
    /\ UNCHANGED <<cvars, qvars, mvars, partial>>

\* the collector of future i returns the list it has gathered
TaskFinish(i) ==
    /\ task[i] = "gathered"
    /\ task' = [task EXCEPT ![i] = "returned"]
    /\ UNCHANGED <<pc, name, queries, result, cur, waited, profiles,
                   web_mentions, locations, confidence_score>>
    /\ UNCHANGED <<cvars, qvars, mvars, partial>>

\* an exception leaves the task of future i (one raised outside the
\* collector's own try blocks)
TaskRaise(i) ==
    /\ task[i] = "running"
    /\ i \in Faulty \/ Cardinality(Faulty) < MaxFaults
    /\ task' = [task EXCEPT ![i] = "raised"]
    /\ UNCHANGED <<pc, name, queries, result, cur, waited, profiles,
                   web_mentions, locations, confidence_score>>
    /\ UNCHANGED <<cvars, qvars, mvars, partial>>

\* a result loop that leaves the with block before the last future
NextFutureStopsEarly(i) ==
    IF i < NumFutures - 1 THEN [pc |-> "results", cur |-> i + 1]
    ELSE [pc |-> "shutdown", cur |-> i]

\* the position of the result loop after future i: the next future, or the
\* end of the with block
NextFuture(i) ==
    IF i < NumFutures THEN [pc |-> "results", cur |-> i + 1]
    ELSE [pc |-> "shutdown", cur |-> i]

\* a handler that leaves the result loop at the first failed future
OnFutureErrorBreaks(i) == [pc |-> "shutdown", cur |-> i]

\* except Exception as e: logger.error(...): the loop goes on
OnFutureError(i) == NextFuture(i)

\* an update that replaces the list by the new records
ExtendLosing(list, rs) == rs

\* an update that puts the new records in front
ExtendFront(list, rs) == rs \o list

\* list.extend(rs)
Extend(list, rs) == list \o rs

\* result = future.result(timeout=30) returns; the result is added by type
GetResult ==
    /\ pc = "results"
    /\ task[cur] = "returned"
    /\ profiles' = IF Futures[cur].type = "platform"
                   THEN Extend(profiles, result[cur]) ELSE profiles
    /\ web_mentions' = IF Futures[cur].type \in {"web", "news"}
                       THEN Extend(web_mentions, result[cur]) ELSE web_mentions
    /\ waited' = [waited EXCEPT ![cur] = "ok"]
    /\ pc' = NextFuture(cur).pc
    /\ cur' = NextFuture(cur).cur
    /\ UNCHANGED <<name, queries, task, result, locations, confidence_score>>
    /\ UNCHANGED <<cvars, qvars, mvars, partial>>

\* future.result(timeout=30) re-raises the task's exception
GetException ==
    /\ pc = "results"
    /\ task[cur] = "raised"
    /\ waited' = [waited EXCEPT ![cur] = "error"]
    /\ pc' = OnFutureError(cur).pc
    /\ cur' = OnFutureError(cur).cur
    /\ UNCHANGED <<name, queries, task, result, profiles, web_mentions,
                   locations, confidence_score>>
    /\ UNCHANGED <<cvars, qvars, mvars, partial>>

\* future.result(timeout=30) raises TimeoutError: the task has not finished
\* 30 seconds after the wait began
GetTimeout ==
    /\ pc = "results"
    /\ task[cur] \in {"running", "gathered"}
    /\ cur \in Faulty \/ Cardinality(Faulty) < MaxFaults
    /\ waited' = [waited EXCEPT ![cur] = "timeout"]
    /\ partial' = [partial EXCEPT ![cur] = result[cur]]
    /\ pc' = OnFutureError(cur).pc
    /\ cur' = OnFutureError(cur).cur
    /\ UNCHANGED <<name, queries, task, result, profiles, web_mentions,
                   locations, confidence_score>>
    /\ UNCHANGED <<cvars, qvars, mvars>>

\* leaving the block without joining the worker threads (shutdown(wait=False))
ShutdownNoWait ==
    /\ pc = "shutdown"
    /\ pc' = "analyze"
    /\ UNCHANGED <<name, queries, task, result, cur, waited, profiles,
                   web_mentions, locations, confidence_score>>
    /\ UNCHANGED <<cvars, qvars, mvars, partial>>

\* leaving the with block: executor.shutdown(wait=True) joins the worker
\* threads, so it returns once every task has finished
Shutdown ==
    /\ pc = "shutdown"
    /\ \A i \in FutureIds : task[i] \in {"returned", "raised"}
    /\ pc' = "analyze"
    /\ UNCHANGED <<name, queries, task, result, cur, waited, profiles,
                   web_mentions, locations, confidence_score>>
    /\ UNCHANGED <<cvars, qvars, mvars, partial>>

RECURSIVE SumConfidence(_)
SumConfidence(ps) ==
    IF ps = <<>> THEN Zero
    ELSE RatAdd(SumConfidence(Tail(ps)), Head(ps).confidence)

\* a score that is the confidence of the first profile
OverallConfidenceOfFirst(ps, old) == IF ps # <<>> THEN ps[1].confidence ELSE old

\* the sum of the confidences, not divided by the number of profiles
OverallConfidenceSum(ps, old) == IF ps # <<>> THEN SumConfidence(ps) ELSE old

\* avg_confidence of _analyze_and_correlate_data; confidence_score keeps its
\* value when there is no profile
OverallConfidence(ps, old) ==
    IF ps # <<>>
    THEN LET total == SumConfidence(ps) IN Rat(total.n, total.d * Len(ps))
    ELSE old

\* web_mentions.sort(key=lambda x: x.relevance_score, reverse=True)
RECURSIVE SortByRelevance(_)
SortByRelevance(s) ==
    IF s = <<>> THEN <<>>
    ELSE LET front == SortByRelevance(SubSeq(s, 1, Len(s) - 1))
             x == s[Len(s)]
             k == Cardinality({i \in 1..Len(front) :
                                 RatLeq(x.relevance_score, front[i].relevance_score)})
         IN SubSeq(front, 1, k) \o <<x>> \o SubSeq(front, k + 1, Len(front))

\* an assembly that also reads the futures the result loop gave up on
AnalyzeReadsLate ==
    LET late == Flatten([i \in FutureIds |->
                           IF Futures[i].type = "platform" /\ waited[i] = "timeout"
                           THEN result[i] ELSE <<>>])
        all == profiles \o late
    IN /\ pc = "analyze"
       /\ locations' = locations \cup {p.location : p \in {q \in Range(all) : q.location # <<>>}}
       /\ confidence_score' = OverallConfidence(all, confidence_score)
       /\ profiles' = SortByConfidence(all)
       /\ web_mentions' = SortByRelevance(web_mentions)
       /\ pc' = "returned"
       /\ UNCHANGED <<name, queries, task, result, cur, waited>>
       /\ UNCHANGED <<cvars, qvars, mvars, partial>>

\* _analyze_and_correlate_data, then return person_data
Analyze ==
    /\ pc = "analyze"
    /\ locations' = locations \cup {p.location : p \in {q \in Range(profiles) : q.location # <<>>}}
    /\ confidence_score' = OverallConfidence(profiles, confidence_score)
    /\ profiles' = SortByConfidence(profiles)
    /\ web_mentions' = SortByRelevance(web_mentions)
    /\ pc' = "returned"
    /\ UNCHANGED <<name, queries, task, result, cur, waited>>
    /\ UNCHANGED <<cvars, qvars, mvars, partial>>

-----------------------------------------------------------------------------
(* Specifications *)

Init ==
    /\ hashSeed \in HashSeeds
    /\ qlog = <<>>
    /\ prog = "idle"
    /\ recs = <<>>
    /\ shuffled = <<>>
    /\ dedupA = <<>>
    /\ dedupB = <<>>
    /\ eprofiles = <<>>
    /\ sraw = <<>>
    /\ sout = <<>>
    /\ pc = "idle"
    /\ name = <<>>
    /\ queries = <<>>
    /\ task = [i \in FutureIds |-> "none"]
    /\ result = [i \in FutureIds |-> <<>>]
    /\ cur = 1
    /\ waited = [i \in FutureIds |-> "none"]
    /\ partial = [i \in FutureIds |-> <<>>]
    /\ profiles = <<>>
    /\ web_mentions = <<>>
    /\ locations = {}
    /\ confidence_score = Zero
    /\ collecting = "none"
    /\ cpc = "idle"
    /\ cqueries = <<>>
    /\ requested = <<>>
    /\ responses = <<>>
    /\ errlog = <<>>
    /\ clist = <<>>

\* one comprehensive_search of ComprehensivePersonFinder
Next ==
    \/ StartSearch
    \/ Submit
    \/ \E i \in FutureIds : TaskReturn(i)
    \/ \E i \in FutureIds : TaskRaise(i)
    \/ GetResult
    \/ GetException
    \/ GetTimeout
    \/ Shutdown
    \/ Analyze

Spec == Init /\ [][Next]_vars

\* comprehensive_search with the collectors observed while they run
NextCollectors ==
    \/ Next
    \/ \E i \in FutureIds : TaskGather(i)
    \/ \E i \in FutureIds : TaskFinish(i)

SpecCollectors == Init /\ [][NextCollectors]_vars

\* the query generators, across restarts of the interpreter
NextQueries ==
    \/ CallBuildSearchQueries
    \/ CallGenerateSearchQueries
    \/ Restart

SpecQueries == Init /\ [][NextQueries]_vars

\* one search of EnhancedPersonFinder or of RealSocialScraper
NextMerge ==
    \/ GoogleSearchSocial
    \/ DuckDuckGoSearch
    \/ DirectProfileSearch
    \/ EnhancedFinish
    \/ ScraperSearchInstagram

SpecMerge == Init /\ [][NextMerge]_vars

\* one call of one collector
NextRequests ==
    \/ CollectorCall
    \/ CollectorQuery
    \/ CollectorReturn

SpecRequests == Init /\ [][NextRequests]_vars

-----------------------------------------------------------------------------
(* Properties *)

\* a record without its provenance
Core(r) == [f \in DOMAIN r \ {"source"} |-> r[f]]

SameKey(a, b) == a.platform = b.platform /\ a.username = b.username

\* C1: merging the same candidate records in any two arrival orders yields
\* the same set of profiles (keys, field values, confidence), provenance
\* ignored.  _deduplicate_results keeps the record that arrived first.
C1_MergeOrderIndependent ==
    prog = "enhanced_done" =>
        {Core(r) : r \in Range(dedupA)} = {Core(r) : r \in Range(dedupB)}

\* C2: no two profiles of a returned result share an identity key
\* (platform, username).
C2_UniqueIdentityKeys ==
    pc = "returned" =>
        \A i, j \in 1..Len(profiles) :
            SameKey(profiles[i], profiles[j]) => i = j

\* C3: the confidence of a merged profile is the maximum confidence of the
\* candidate records sharing its identity key.
C3_MergedConfidenceIsMax ==
    prog = "enhanced_done" =>
        \A p \in Range(dedupA) : \A r \in Range(recs) :
            SameKey(p, r) => RatLeq(r.confidence, p.confidence)

\* C4: a count field (followers) of a merged profile is the maximum of that
\* field over the candidate records sharing its identity key.
C4_MergedCountsAreMax ==
    prog = "scraper_done" =>
        \A p \in Range(sout) : \A r \in Range(sraw) :
            (p.username # <<>> /\ SameKey(p, r)) => r.followers <= p.followers

\* C5: deadline respect: once the result loop has consumed or given up on
\* every future, the search returns without waiting for collectors that are
\* still running.
C5_ReturnsDespiteUnfinishedCollectors ==
    pc = "shutdown" => ENABLED Shutdown

\* the records of future i are in the result
InResult(i) ==
    CASE Futures[i].type = "platform" -> Range(result[i]) \subseteq Range(profiles)
      [] Futures[i].type \in {"web", "news"} -> Range(result[i]) \subseteq Range(web_mentions)
      [] OTHER -> TRUE

\* C6: failure isolation: whatever collectors raised or timed out, the
\* records of every collector that returned within its result wait are in the
\* returned result.
C6_FailureIsolation ==
    pc = "returned" =>
        \A i \in FutureIds :
            (task[i] = "returned" /\ waited[i] # "timeout") => InResult(i)

\* a collector raised, and a collector waited for after it contributed records
C6_Witness ==
    /\ pc = "returned"
    /\ \E i, j \in FutureIds :
         /\ i < j
         /\ task[i] = "raised" /\ waited[i] = "error"
         /\ waited[j] = "ok" /\ result[j] # <<>>
         /\ Range(result[j]) \subseteq Range(profiles) \cup Range(web_mentions)

\* C7: a search on the empty name, or one in which every collector found
\* nothing, returns an empty profile list and overall confidence 0.
C7_EmptySearchIsEmpty ==
    (pc = "returned" /\ (name = <<>> \/ \A i \in FutureIds : result[i] = <<>>)) =>
        (profiles = <<>> /\ RatEq(confidence_score, Zero))

\* C8: _build_search_queries of the empty name yields the empty sequence.
C8_EmptyNameNoQueries ==
    \A k \in 1..Len(qlog) :
        (qlog[k].fn = "_build_search_queries" /\ qlog[k].nm = <<>>)
            => qlog[k].out = <<>>

\* C9: two calls of the same query generator with identical valid (non-empty)
\* name, location and context yield the identical sequence of queries, in the
\* identical order.
C9_SameInputSameQueries ==
    \A j, k \in 1..Len(qlog) :
        (/\ qlog[j].fn = qlog[k].fn
         /\ qlog[j].nm # <<>>
         /\ qlog[j].nm = qlog[k].nm
         /\ qlog[j].loc = qlog[k].loc
         /\ qlog[j].info = qlog[k].info)
            => qlog[j].out = qlog[k].out

\* _calculate_name_confidence of any two of the names is in [0,1]
NameConfidenceInUnitInterval ==
    \A a, b \in Names \cup FoundNames :
        InUnitInterval(CalculateNameConfidence(a, b))

\* C10: every confidence value is in [0,1]: the confidence a collector gives
\* a record, the confidence of every profile of the result, the overall
\* confidence score, and _calculate_name_confidence of any two names.
C10_ConfidenceInUnitInterval ==
    /\ \A i \in FutureIds :
         Futures[i].type = "platform" =>
             \A p \in Range(result[i]) : InUnitInterval(p.confidence)
    /\ \A p \in Range(profiles) : InUnitInterval(p.confidence)
    /\ InUnitInterval(confidence_score)
    /\ NameConfidenceInUnitInterval

\* a returned result with several profiles and a positive overall confidence
C10_Witness ==
    /\ pc = "returned"
    /\ Len(profiles) >= 2
    /\ RatLess(Zero, confidence_score)
    /\ \E p \in Range(profiles) : RatLess(Zero, p.confidence) /\ RatLess(p.confidence, One)

\* the per-collector outcomes a returned PersonData carries: the dataclass
\* has no field for them and the except clause of the result loop only logs
CollectorOutcomes == [i \in {} |-> "Completed"]

\* the outcome of collector i, from how the result loop left its future
OutcomeOf(i) ==
    CASE waited[i] = "ok" -> "Completed"
      [] waited[i] = "timeout" -> "PartialTimeout"
      [] waited[i] = "error" -> "Failed"
      [] OTHER -> "none"

\* C11: a returned result carries exactly one outcome for every dispatched
\* collector: Completed, PartialTimeout for one given up on at its wait,
\* Failed for one that raised.
C11_OutcomePerCollector ==
    pc = "returned" =>
        \A i \in FutureIds :
            /\ i \in DOMAIN CollectorOutcomes
            /\ CollectorOutcomes[i] = OutcomeOf(i)

\* alphabetical order of the platform names
SourceOrder == <<"facebook", "instagram", "linkedin", "twitter">>

SourceRank(platform) == CHOOSE i \in 1..Len(SourceOrder) : SourceOrder[i] = platform

CharRank(c) ==
    IF \E i \in 1..26 : LowerCase[i] = c
    THEN CHOOSE i \in 1..26 : LowerCase[i] = c
    ELSE 0

\* lexicographic order of two usernames
RECURSIVE StrLeq(_, _)
StrLeq(a, b) ==
    IF a = <<>> THEN TRUE
    ELSE IF b = <<>> THEN FALSE
    ELSE IF Head(a) = Head(b) THEN StrLeq(Tail(a), Tail(b))
    ELSE CharRank(Head(a)) < CharRank(Head(b))

\* a may precede b: higher confidence, then source name, then stableKey
InOutputOrder(a, b) ==
    \/ RatLess(b.confidence, a.confidence)
    \/ /\ RatEq(a.confidence, b.confidence)
       /\ \/ SourceRank(a.platform) < SourceRank(b.platform)
          \/ /\ a.platform = b.platform
             /\ StrLeq(a.username, b.username)

\* C12: the returned profile list is sorted by confidence descending, ties
\* broken by source name and then by stableKey.
C12_SortedWithTieBreaks ==
    prog = "enhanced_done" =>
        \A i, j \in 1..Len(eprofiles) :
            i < j => InOutputOrder(eprofiles[i], eprofiles[j])

\* C13: the overall confidence of a returned result is the arithmetic mean of
\* the confidences of its profiles, and 0 when it has no profile.
C13_OverallConfidenceIsMean ==
    pc = "returned" =>
        IF profiles = <<>>
        THEN RatEq(confidence_score, Zero)
        ELSE /\ confidence_score.d > 0
             /\ LET total == SumConfidence(profiles)
                IN RatEq(confidence_score, Rat(total.n, total.d * Len(profiles)))

\* a returned result whose profiles do not all have the same confidence
C13_Witness ==
    /\ pc = "returned"
    /\ Len(profiles) >= 2
    /\ \E p, q \in Range(profiles) : RatLess(p.confidence, q.confidence)
    /\ RatLess(Zero, confidence_score)

\* the positions of s that hold a record with an empty username
EmptyKeyed(s) == {i \in 1..Len(s) : s[i].username = <<>>}

\* C14: a candidate record whose stableKey (username) is empty is never
\* dropped and never merged with another: each is a profile of its own in the
\* result.
C14_EmptyKeySingletons ==
    prog = "scraper_done" =>
        /\ \A i \in EmptyKeyed(sraw) : sraw[i] \in Range(sout)
        /\ Cardinality(EmptyKeyed(sout)) = Cardinality(EmptyKeyed(sraw))

\* the most queries _build_search_queries appends: 3 basic, 3 with a
\* location, 5 professional, 4 social media, 2 with additional info
QueryCap == 3 + 3 + 5 + 4 + 2

\* C15: the length of a generated query sequence never exceeds a fixed bound,
\* whatever the length of the name, the location and the context.
C15_QueryCountBounded ==
    \A k \in 1..Len(qlog) : Len(qlog[k].out) <= QueryCap

\* the longest input reaches the bound, and a shorter name was given too
C15_Witness ==
    \E j, k \in 1..Len(qlog) :
        /\ qlog[j].fn = "_build_search_queries"
        /\ qlog[j].nm = StrJoLi /\ qlog[j].loc # <<>> /\ qlog[j].info # <<>>
        /\ Len(qlog[j].out) = QueryCap
        /\ qlog[k].fn = "_build_search_queries"
        /\ Len(qlog[k].nm) < Len(qlog[j].nm)

\* C16: for every non-empty name, the queries of _build_search_queries
\* contain the exact-phrase variant: the name as given, in double quotes.
C16_ExactPhraseVariant ==
    \A k \in 1..Len(qlog) :
        (qlog[k].fn = "_build_search_queries" /\ qlog[k].nm # <<>>)
            => (<<"\"">> \o qlog[k].nm \o <<"\"">>) \in Range(qlog[k].out)

\* queries were built for a name with capitals and a space
C16_Witness ==
    \E k \in 1..Len(qlog) :
        /\ qlog[k].fn = "_build_search_queries"
        /\ qlog[k].nm = StrJoLi
        /\ Lower(qlog[k].nm) # qlog[k].nm
        /\ <<"\"", "J", "o", " ", "L", "i", "\"">> \in Range(qlog[k].out)

\* the first non-empty value of field f among the records of rs, in arrival
\* order, that share the identity key of p; empty when there is none
RECURSIVE FirstNonEmpty(_, _, _)
FirstNonEmpty(rs, p, f) ==
    IF rs = <<>> THEN <<>>
    ELSE IF SameKey(Head(rs), p) /\ Head(rs)[f] # <<>> THEN Head(rs)[f]
    ELSE FirstNonEmpty(Tail(rs), p, f)

\* C17: each scalar field (name, bio, location) of a merged profile is the
\* first non-empty value of that field among the records sharing its identity
\* key, in arrival order: a later duplicate fills a field the first left empty.
C17_FirstNonEmptyScalar ==
    prog = "enhanced_done" =>
        \A p \in Range(dedupA) : \A f \in {"name", "bio", "location"} :
            p[f] = FirstNonEmpty(recs, p, f)

\* the records rs of future i are in the result, by the type of the future
ListInResult(i, rs) ==
    CASE Futures[i].type = "platform" -> Range(rs) \subseteq Range(profiles)
      [] Futures[i].type \in {"web", "news"} -> Range(rs) \subseteq Range(web_mentions)
      [] OTHER -> TRUE

\* C18: a collector given up on at its timeout keeps its partial results: the
\* records it had gathered when the wait on it timed out are in the returned
\* result.  (That its outcome is flagged as a timeout is the case of C11.)
C18_TimeoutKeepsPartialResults ==
    pc = "returned" =>
        \A i \in FutureIds :
            waited[i] = "timeout" => ListInResult(i, partial[i])

\* C19: the records of a collector that has completed are forwarded without
\* waiting for collectors that are still running: the result loop is never
\* held at an earlier future whose collector is running while a later
\* future's collector has returned and its records have not been taken.
C19_ForwardedOnCompletion ==
    \A i, j \in FutureIds :
        (/\ pc = "results" /\ cur = i /\ i < j
         /\ task[j] = "returned" /\ result[j] # <<>> /\ waited[j] = "none")
            => task[i] # "running"

\* future.result(timeout=30): seconds the result loop waits for one future
ResultTimeout == 30

\* seconds the result loop has spent at least since the futures were
\* submitted: each wait that timed out lasted ResultTimeout
Elapsed == ResultTimeout * Cardinality({i \in FutureIds : waited[i] = "timeout"})

\* seconds after submission until which the result loop waits for future cur
\* once it calls future.result on it
WaitsUntil == Elapsed + ResultTimeout

\* C20: the budget of a collector is min(globalDeadline - elapsed,
\* configuredMaxPerCollector) from its dispatch.  Every collector is
\* dispatched before the result loop begins, so the loop waits for none
\* longer than the configured maximum (ResultTimeout) after submission, and
\* the wait left for a later future shrinks by the time already spent.
C20_BudgetFromDispatch ==
    (pc = "results" /\ task[cur] = "running") => WaitsUntil <= ResultTimeout

Taken(types) ==
    Flatten([i \in FutureIds |->
               IF Futures[i].type \in types /\ waited[i] = "ok"
               THEN result[i] ELSE <<>>])

\* C22: the assembly of the result (_analyze_and_correlate_data) starts only
\* after every dispatched collector has returned or been given up on, and
\* from then on the result holds the records taken before it, no other.
C22_AssemblyAfterCollectors ==
    pc \in {"analyze", "returned"} =>
        /\ \A i \in FutureIds : waited[i] \in {"ok", "error", "timeout"}
        /\ Len(profiles) = Len(Taken({"platform"}))
        /\ Range(profiles) = Range(Taken({"platform"}))
        /\ Len(web_mentions) = Len(Taken({"web", "news"}))
        /\ Range(web_mentions) = Range(Taken({"web", "news"}))

\* a result assembled after one collector was given up on and another
\* contributed records
C22_Witness ==
    /\ pc = "returned"
    /\ \E i \in FutureIds : waited[i] = "timeout"
    /\ \E i \in FutureIds : waited[i] = "ok" /\ result[i] # <<>>
    /\ profiles # <<>>

\* C23: output of a collector the result loop has given up on is never read:
\* none of its records is in the result, even when the collector completes
\* before the search returns.
C23_AbandonedOutputNotRead ==
    \A i \in FutureIds :
        waited[i] = "timeout" =>
            Range(result[i]) \cap (Range(profiles) \cup Range(web_mentions)) = {}

\* a collector returned records after the wait on it had timed out
C23_Witness ==
    /\ pc = "returned"
    /\ \E i \in FutureIds :
         waited[i] = "timeout" /\ task[i] = "returned" /\ result[i] # <<>>

C28_NoReturnWhileRunning ==
    pc \in {"analyze", "returned"} =>
        \A i \in FutureIds : task[i] \in {"returned", "raised"}

\* the search returned after a wait had timed out: that task finished first
C28_Witness ==
    /\ pc = "returned"
    /\ \E i \in FutureIds : waited[i] = "timeout" /\ task[i] \in {"returned", "raised"}

C27_ConfidenceIsNameOverlap ==
    \A k \in 1..Len(result[1]) :
        /\ RatEq(result[1][k].confidence,
                 CalculateNameConfidence(name, result[1][k].full_name))
        /\ Range(Split(Lower(result[1][k].full_name))) = Range(Split(Lower(name)))
             /\ name # <<>>
             => RatEq(result[1][k].confidence, One)

\* positions of recs holding the first record of their (platform, username)
FirstOfKey == {i \in 1..Len(recs) : \A j \in 1..(i - 1) : ~SameKey(recs[j], recs[i])}

\* the k-th of those positions, in input order
KeptAt(k) == CHOOSE i \in FirstOfKey : Cardinality({j \in FirstOfKey : j <= i}) = k

C25_QueryFailureRecorded ==
    cpc = "done" =>
        /\ \A k \in 1..Len(responses) :
             responses[k].kind # "ok" => requested[k] \in Range(errlog)
        /\ requested = QueryPrefix(collecting, cqueries)
        /\ clist = Flatten([k \in 1..Len(requested) |->
                              RecordsOf(collecting, requested[k], responses[k])])

\* C26: a collector sends requests only for a bounded prefix of the queries
\* it is given (the first 3 for Instagram and LinkedIn, 2 for Twitter, 5 for
\* web mentions), whatever their number; later queries are never sent.
C26_BoundedPrefix ==
    /\ Len(requested) <= Len(cqueries)
    /\ requested = SubSeq(cqueries, 1, Len(requested))
    /\ collecting \in {"instagram", "linkedin"} => Len(requested) <= 3
    /\ collecting = "twitter" => Len(requested) <= 2
    /\ collecting = "mentions" => Len(requested) <= 5

\* the web-mention collector returned after it was given 17 queries: it sent 5
C26_Witness ==
    /\ cpc = "done"
    /\ collecting = "mentions"
    /\ Len(cqueries) = 17
    /\ Len(requested) = 5

=============================================================================
